---- MODULE Spec2Model ----
(***************************************************************************)
(* github_pr_stats.py: paginated search of a user's pull requests, a pool  *)
(* of two worker threads that fetch the detail of every search item, and   *)
(* a report grouped by repository.                                         *)
(*                                                                         *)
(* Python values are records carrying their type; a dict is a function     *)
(* from its keys to values, a str a sequence of strings (its characters,   *)
(* or longer pieces where the program never looks inside).                 *)
(* Time is in milliseconds.                                                *)
(***************************************************************************)
EXTENDS Integers, Sequences, FiniteSets, TLC

VARIABLES
    pc,            \* thread -> position in the program
    frame,         \* thread -> the locals of its call of fetch
    page,          \* search_prs: page
    prs,           \* search_prs / main: prs
    requested,     \* the pages search_prs has called fetch for, in order
    returned,      \* what fetch returned to search_prs, call by call
    futures,       \* main: futures (item, state, outcome of each task)
    task,          \* worker -> the future whose task it runs, 0 when idle
    yielded,       \* the futures as_completed has handed to the loop
    detailed_prs,  \* main: detailed_prs
    grouped,       \* main: grouped, in insertion order
    report,        \* what main has printed
    exit_status,   \* the exit status of the process, -1 while it runs
    env            \* the data of the API this run talks to

vars == <<pc, frame, page, prs, requested, returned, futures, task, yielded, detailed_prs,
          grouped, report, exit_status, env>>

-----------------------------------------------------------------------------
(* Bounds of the model *)

\* items a search page holds in the whole-program specification
MaxItems == 3
\* pages of results the API holds in the pagination specification
MaxPages == 3

(* Program constants *)

retries == 3
PageSize == 100
max_workers == 2

Main == 0
Workers == 1..max_workers
Threads == {Main} \cup Workers

-----------------------------------------------------------------------------
(* Python values *)

None == [type |-> "NoneType"]
Str(s) == [type |-> "str", s |-> s]
Dict(f) == [type |-> "dict", d |-> f]
List(l) == [type |-> "list", l |-> l]
EmptyDict == Dict(<<>>)

\* bool(v)
Truthy(v) ==
    CASE v.type = "NoneType" -> FALSE
      [] v.type = "dict" -> DOMAIN v.d # {}
      [] v.type = "list" -> Len(v.l) > 0
      [] v.type = "str" -> Len(v.s) > 0
      [] OTHER -> TRUE

\* key in v
HasKey(v, key) == v.type = "dict" /\ key \in DOMAIN v.d

\* v.get(key, default)
Get(v, key, default) == IF HasKey(v, key) THEN v.d[key] ELSE default

\* The outcome of evaluating an expression: a value or a raised exception.
Value(v) == [raised |-> FALSE, value |-> v, exc |-> ""]
Raise(e) == [raised |-> TRUE, value |-> None, exc |-> e]

\* v[key]
Subscript(v, key) ==
    IF v.type = "dict"
    THEN IF key \in DOMAIN v.d THEN Value(v.d[key]) ELSE Raise("KeyError")
    ELSE Raise("TypeError")

\* o[key] where o is itself the outcome of an expression
Sub(o, key) == IF o.raised THEN o ELSE Subscript(o.value, key)

-----------------------------------------------------------------------------
(* The upstream API *)

SearchUrl(p) == Str(<<"search/issues?page=", ToString(p)>>)
PullUrl(id) == Str(<<"pulls/", ToString(id)>>)

\* A search item: with type:pr the API attaches pull_request.url; an item the
\* API returns without it is in env.noref.
Item(id) ==
    IF id \in env.noref
    THEN Dict([number |-> Str(<<ToString(id)>>)])
    ELSE Dict([number |-> Str(<<ToString(id)>>),
               pull_request |-> Dict([url |-> PullUrl(id)])])

\* The items of page p when it holds n of them.
PageItems(p, n) == [i \in 1..n |-> Item((p - 1) * PageSize + i)]

\* The JSON bodies the search endpoint can answer page p with.  The API holds
\* at most MaxPages pages of results.
SearchPayloads(p) ==
    {Dict([message |-> Str(<<"Validation Failed">>)])}
    \cup {Dict([total_count |-> Str(<<ToString(n)>>), items |-> List(PageItems(p, n))]) :
             n \in IF p <= MaxPages THEN env.page_sizes ELSE {0}}

\* ISO-8601 timestamps as the API formats them, character by character.
Timestamp(mo, d) ==
    <<"2", "0", "2", "4", "-">> \o mo \o <<"-">> \o d
        \o <<"T", "0", "0", ":", "0", "0", ":", "0", "0", "Z">>

Jan01 == Timestamp(<<"0", "1">>, <<"0", "1">>)
Jan02 == Timestamp(<<"0", "1">>, <<"0", "2">>)
Jan03 == Timestamp(<<"0", "1">>, <<"0", "3">>)
Feb10 == Timestamp(<<"0", "2">>, <<"1", "0">>)

\* The detail of pull request id as the API documents it.
PullPayload(id, repo, created, merged) ==
    Dict([base |-> Dict([repo |-> Dict([full_name |-> Str(<<repo>>),
                                        html_url |-> Str(<<"https://github.com/", repo>>)])]),
          title |-> Str(<<"PR ", id>>),
          created_at |-> Str(created),
          merged_at |-> merged,
          html_url |-> Str(<<"https://github.com/pull/", id>>)])

\* d without key
Without(v, key) == Dict([k \in DOMAIN v.d \ {key} |-> v.d[k]])

CompletePayloads(id) ==
    {PullPayload(id, "octo/alpha", Jan03, None),
     PullPayload(id, "octo/alpha", Jan01, Str(Feb10)),
     PullPayload(id, "octo/alpha", Jan02, None),
     PullPayload(id, "octo/beta", Jan02, Str(Feb10))}

\* Detail bodies that lack what fetch_pr_details reads: no base, a base
\* without repo, no merged_at, nothing at all.
PartialPayloads(id) ==
    LET full == PullPayload(id, "octo/alpha", Jan01, None)
    IN  {Without(full, "base"),
         Dict([full.d EXCEPT !.base = EmptyDict]),
         Without(full, "merged_at"),
         EmptyDict}

PullPayloads(id) == CompletePayloads(id) \cup PartialPayloads(id)

Payloads(url) ==
    IF url.s[1] = "pulls/" THEN PullPayloads(url.s[2])
    ELSE SearchPayloads(CHOOSE p \in 1..(MaxPages + 1) : ToString(p) = url.s[2])

\* What one requests.get(url) can come to: a RequestException, or a response
\* with a status and, for 200, a body.  json is the body parsed, or the
\* exception r.json() raises on a body that is no JSON: requests >= 2.27
\* raises requests.JSONDecodeError, a RequestException; older builds raise
\* json.JSONDecodeError, a ValueError.  jitter is what random.uniform(0, 0.3)
\* returns on the success path.
Outcome(exc, status, json, jitter) ==
    [exception |-> exc, status_code |-> status, json |-> json, jitter |-> jitter]

NoOutcome == Outcome(FALSE, 0, Value(None), 0)

Jitters == {0, 300}

Outcomes(payloads) ==
    {Outcome(TRUE, 0, Value(None), 0)}
    \cup {Outcome(FALSE, s, Value(None), 0) : s \in {403, 429, 500, 404}}
    \cup {Outcome(FALSE, 200, Raise(e), j) :
             e \in {"requests.JSONDecodeError", "json.JSONDecodeError"}, j \in Jitters}
    \cup {Outcome(FALSE, 200, Value(p), j) : p \in payloads, j \in Jitters}

-----------------------------------------------------------------------------
(* fetch *)

\* The locals of one call of fetch and the record of what the call did:
\* gets counts its calls of requests.get, log holds what each came to, slept
\* the calls of time.sleep with the attempt they belong to; state is
\* "running" inside the loop, then "returned" or "raised".
NoFrame ==
    [url |-> Str(<<>>), attempt |-> 0, r |-> NoOutcome, gets |-> 0, log |-> <<>>,
     slept |-> <<>>, state |-> "none", ret |-> None, exc |-> ""]

\* fetch(url): the frame on entry, before the first iteration
Call(url) == [NoFrame EXCEPT !.url = url, !.state = "running"]

Sleep(f, ms) == [f EXCEPT !.slept = Append(@, [attempt |-> f.attempt, ms |-> ms])]
Return(f, v) == [f EXCEPT !.state = "returned", !.ret = v]
Propagate(f, e) == [f EXCEPT !.state = "raised", !.exc = e]

\* Continue with the ceiling one attempt short.
Continue_OneAttemptShort(f) ==
    IF f.attempt + 1 < retries - 1
    THEN [f EXCEPT !.attempt = @ + 1]
    ELSE [f EXCEPT !.state = "returned", !.ret = None]

\* continue, or the end of an except block: the next iteration of
\* for attempt in range(retries), or return None once the range is exhausted
Continue(f) ==
    IF f.attempt + 1 < retries
    THEN [f EXCEPT !.attempt = @ + 1]
    ELSE Return(f, None)

\* 2 ** attempt
RECURSIVE Pow2(_)
Pow2(n) == IF n = 0 THEN 1 ELSE 2 * Pow2(n - 1)

\* wait = 2 ** attempt, in milliseconds
Backoff(attempt) == Pow2(attempt) * 1000

\* except requests.RequestException
IsRequestException(e) == e \in {"requests.RequestException", "requests.JSONDecodeError"}

\* Except with the handled exception not counted against the ceiling.
Except_Uncounted(f, e) ==
    IF IsRequestException(e)
    THEN [f EXCEPT !.slept = Append(@, [attempt |-> f.attempt, ms |-> 1000])]
    ELSE [f EXCEPT !.state = "raised", !.exc = e]

\* An exception raised inside the try block: the except clause handles a
\* RequestException, anything else leaves fetch.
Except(f, e) ==
    IF IsRequestException(e) THEN Continue(Sleep(f, 1000)) ELSE Propagate(f, e)

\* Iteration with the exponent of the backoff counting the rate limits met so
\* far in the call, not the attempts.
Iteration_ExponentCountsRateLimits(f, o) ==
    LET g == [f EXCEPT !.gets = @ + 1, !.r = o, !.log = Append(@, o)]
        met == Cardinality({k \in 1..Len(f.log) :
                              ~f.log[k].exception /\ f.log[k].status_code \in {403, 429}})
    IN  IF o.exception THEN Except(g, "requests.RequestException")
        ELSE IF o.status_code = 200
             THEN LET s == Sleep(g, 400 + o.jitter)
                  IN  IF o.json.raised THEN Except(s, o.json.exc) ELSE Return(s, o.json.value)
        ELSE IF o.status_code \in {403, 429}
             THEN Continue(Sleep(g, Backoff(met)))
        ELSE IF o.status_code >= 500
             THEN Continue(Sleep(g, 1000))
        ELSE Return(g, None)

\* Iteration with every status but 200 slept on and retried.
Iteration_RetriesAnyStatus(f, o) ==
    LET g == [f EXCEPT !.gets = @ + 1, !.r = o, !.log = Append(@, o)]
    IN  IF o.exception THEN Except(g, "requests.RequestException")
        ELSE IF o.status_code = 200
             THEN LET s == Sleep(g, 400 + o.jitter)
                  IN  IF o.json.raised THEN Except(s, o.json.exc) ELSE Return(s, o.json.value)
        ELSE IF o.status_code \in {403, 429}
             THEN Continue(Sleep(g, Backoff(g.attempt)))
        ELSE Continue(Sleep(g, 1000))

\* One iteration of the loop of fetch, o being what requests.get comes to.
Iteration(f, o) ==
    LET g == [f EXCEPT !.gets = @ + 1, !.r = o, !.log = Append(@, o)]
    IN  IF o.exception THEN Except(g, "requests.RequestException")
        ELSE IF o.status_code = 200
             THEN LET s == Sleep(g, 400 + o.jitter)
                  IN  IF o.json.raised THEN Except(s, o.json.exc) ELSE Return(s, o.json.value)
        ELSE IF o.status_code \in {403, 429}
             THEN Continue(Sleep(g, Backoff(g.attempt)))
        ELSE IF o.status_code >= 500
             THEN Continue(Sleep(g, 1000))
        ELSE Return(g, None)

\* Thread t runs one iteration of the loop of the call of fetch it is in.
FetchAttempt(t) ==
    /\ pc[t] = "fetch"
    /\ frame[t].state = "running"
    /\ \E o \in Outcomes(Payloads(frame[t].url)) :
          LET f == Iteration(frame[t], o)
          IN  /\ frame' = [frame EXCEPT ![t] = f]
              /\ pc' = [pc EXCEPT ![t] = IF f.state = "running" THEN "fetch" ELSE "fetched"]
    /\ UNCHANGED <<page, prs, requested, returned, futures, task, yielded, detailed_prs,
                   grouped, report, exit_status, env>>

-----------------------------------------------------------------------------
(* search_prs *)

\* SearchStep keeping what a failed fetch returned as an item of the result.
SearchStep_KeepsFailure(acc, p, data) ==
    IF ~Truthy(data) \/ ~HasKey(data, "items")
    THEN [prs |-> Append(acc, data), page |-> p, again |-> FALSE]
    ELSE LET items == data.d.items.l
         IN  IF Len(items) < PageSize
             THEN [prs |-> acc \o items, page |-> p, again |-> FALSE]
             ELSE [prs |-> acc \o items, page |-> p + 1, again |-> TRUE]

\* SearchStep without page += 1.
SearchStep_SamePage(acc, p, data) ==
    IF ~Truthy(data) \/ ~HasKey(data, "items")
    THEN [prs |-> acc, page |-> p, again |-> FALSE]
    ELSE LET items == data.d.items.l
         IN  IF Len(items) < PageSize
             THEN [prs |-> acc \o items, page |-> p, again |-> FALSE]
             ELSE [prs |-> acc \o items, page |-> p, again |-> TRUE]

\* SearchStep returning nothing when a page fails.
SearchStep_DropsOnFailure(acc, p, data) ==
    IF ~Truthy(data) \/ ~HasKey(data, "items")
    THEN [prs |-> <<>>, page |-> p, again |-> FALSE]
    ELSE LET items == data.d.items.l
         IN  IF Len(items) < PageSize
             THEN [prs |-> acc \o items, page |-> p, again |-> FALSE]
             ELSE [prs |-> acc \o items, page |-> p + 1, again |-> TRUE]

\* One pass of the while loop of search_prs, data being what fetch returned:
\* the new prs and page, and whether the loop goes on to fetch that page.
SearchStep(acc, p, data) ==
    IF ~Truthy(data) \/ ~HasKey(data, "items")
    THEN [prs |-> acc, page |-> p, again |-> FALSE]
    ELSE LET items == data.d.items.l
         IN  IF Len(items) < PageSize
             THEN [prs |-> acc \o items, page |-> p, again |-> FALSE]
             ELSE [prs |-> acc \o items, page |-> p + 1, again |-> TRUE]

InitProgram ==
    /\ pc = [t \in Threads |-> IF t = Main THEN "start" ELSE "idle"]
    /\ frame = [t \in Threads |-> NoFrame]
    /\ page = 0
    /\ prs = <<>>
    /\ requested = <<>>
    /\ returned = <<>>
    /\ futures = <<>>
    /\ task = [w \in Workers |-> 0]
    /\ yielded = {}
    /\ detailed_prs = <<>>
    /\ grouped = <<>>
    /\ report = <<>>
    /\ exit_status = -1

\* main parses its arguments and calls search_prs, which sets prs and page and
\* calls fetch for the first page; argparse exits with status 2 on a bad
\* command line.
Start ==
    /\ pc[Main] = "start"
    /\ \E args_ok \in BOOLEAN :
          IF args_ok
          THEN /\ prs' = <<>>
               /\ page' = 1
               /\ requested' = <<1>>
               /\ frame' = [frame EXCEPT ![Main] = Call(SearchUrl(1))]
               /\ pc' = [pc EXCEPT ![Main] = "fetch"]
               /\ UNCHANGED exit_status
          ELSE /\ exit_status' = 2
               /\ pc' = [pc EXCEPT ![Main] = "exited"]
               /\ UNCHANGED <<prs, page, requested, frame>>
    /\ UNCHANGED <<returned, futures, task, yielded, detailed_prs, grouped, report, env>>

\* search_prs takes what fetch returned for the page: it stops (and returns
\* prs to main) or calls fetch for the next page.  An exception that left
\* fetch leaves search_prs and main: the interpreter exits with status 1.
SearchPage ==
    /\ pc[Main] = "fetched"
    /\ IF frame[Main].state = "raised"
       THEN /\ exit_status' = 1
            /\ pc' = [pc EXCEPT ![Main] = "exited"]
            /\ frame' = [frame EXCEPT ![Main] = NoFrame]
            /\ UNCHANGED <<prs, page, requested, returned>>
       ELSE LET n == SearchStep(prs, page, frame[Main].ret)
            IN  /\ prs' = n.prs
                /\ page' = n.page
                /\ requested' = IF n.again THEN Append(requested, n.page) ELSE requested
                /\ returned' = Append(returned, frame[Main].ret)
                /\ frame' = [frame EXCEPT ![Main] =
                               IF n.again THEN Call(SearchUrl(n.page)) ELSE NoFrame]
                /\ pc' = [pc EXCEPT ![Main] = IF n.again THEN "fetch" ELSE "searched"]
                /\ UNCHANGED exit_status
    /\ UNCHANGED <<futures, task, yielded, detailed_prs, grouped, report, env>>

-----------------------------------------------------------------------------
(* fetch_pr_details *)

\* PrUrl making up the url of an item from its number.
PrUrl_FromNumber(pr) == Value(Str(<<"pulls/", pr.d.number.s[1]>>))

\* pr.get("pull_request", {}).get("url")
PrUrl(pr) ==
    LET ref == Get(pr, "pull_request", EmptyDict)
    IN  IF ref.type = "dict" THEN Value(Get(ref, "url", None)) ELSE Raise("AttributeError")

\* The dict literal of fetch_pr_details: its six subscriptions are evaluated in
\* order and the first that raises ends the call.
Record(details) ==
    LET repo == Sub(Subscript(details, "base"), "repo")
        repo_name == Sub(repo, "full_name")
        repo_link == Sub(repo, "html_url")
        title == Subscript(details, "title")
        created_at == Subscript(details, "created_at")
        merged_at == Subscript(details, "merged_at")
        pr_link == Subscript(details, "html_url")
        all == <<repo_name, repo_link, title, created_at, merged_at, pr_link>>
    IN  IF \E k \in 1..6 : all[k].raised
        THEN all[CHOOSE k \in 1..6 : all[k].raised /\ \A j \in 1..(k - 1) : ~all[j].raised]
        ELSE Value(Dict([repo_name |-> repo_name.value, repo_link |-> repo_link.value,
                         title |-> title.value, created_at |-> created_at.value,
                         merged_at |-> merged_at.value, pr_link |-> pr_link.value]))

\* What the caller of fetch is left with once the call is over.
Result(f) == [NoFrame EXCEPT !.state = f.state, !.ret = f.ret, !.exc = f.exc]

\* The outcomes of a whole call of fetch: what the loop that starts in frame
\* f can leave its caller with, the API answering with these payloads.
RECURSIVE Results(_, _)
Results(f, payloads) ==
    IF f.state # "running" THEN {Result(f)}
    ELSE UNION {Results(Iteration(f, o), payloads) : o \in Outcomes(payloads)}

\* The outcomes of fetch(pr_url) for the pull request of each search item.
PullResults ==
    [id \in 1..MaxItems |-> Results(Call(PullUrl(id)), PullPayloads(ToString(id)))]

\* Details making a record of empty fields where fetch returned nothing.
Details_EmptyFields(f) ==
    IF f.state = "raised" THEN Raise(f.exc)
    ELSE IF ~Truthy(f.ret)
    THEN Value(Dict([repo_name |-> Str(<<>>), repo_link |-> Str(<<>>), title |-> Str(<<>>),
                     created_at |-> Str(Jan01), merged_at |-> None, pr_link |-> Str(<<>>)]))
    ELSE Record(f.ret)

\* fetch_pr_details from the return of fetch on: what the task comes to.
Details(f) ==
    IF f.state = "raised" THEN Raise(f.exc)
    ELSE IF ~Truthy(f.ret) THEN Value(None)
    ELSE Record(f.ret)

-----------------------------------------------------------------------------
(* main: the pool *)

Future(state, outcome) == [state |-> state, outcome |-> outcome]

Finish(i, outcome) == [futures EXCEPT ![i] = Future("FINISHED", outcome)]

AllFinished(fs) == \A i \in 1..Len(fs) : fs[i].state = "FINISHED"

\* Searched without the test of prs: the executor whatever was found.
Searched_WithoutTest ==
    /\ pc[Main] = "searched"
    /\ pc' = [pc EXCEPT ![Main] = "submit"]
    /\ UNCHANGED <<frame, page, prs, requested, returned, futures, task, yielded, detailed_prs,
                   grouped, report, exit_status, env>>

\* main after search_prs returned: the notice and a normal return when there
\* is no item, the executor otherwise.
Searched ==
    /\ pc[Main] = "searched"
    /\ IF ~Truthy(List(prs))
       THEN /\ report' = Append(report, [kind |-> "notice"])
            /\ exit_status' = 0
            /\ pc' = [pc EXCEPT ![Main] = "exited"]
       ELSE /\ pc' = [pc EXCEPT ![Main] = "submit"]
            /\ UNCHANGED <<report, exit_status>>
    /\ UNCHANGED <<frame, page, prs, requested, returned, futures, task, yielded, detailed_prs,
                   grouped, env>>

\* executor.submit(fetch_pr_details, pr) for the next pr of prs
Submit ==
    /\ pc[Main] = "submit"
    /\ futures' = Append(futures, Future("PENDING", Value(None)))
    /\ pc' = [pc EXCEPT ![Main] = IF Len(futures') = Len(prs) THEN "collect" ELSE "submit"]
    /\ UNCHANGED <<frame, page, prs, requested, returned, task, yielded, detailed_prs, grouped,
                   report, exit_status, env>>

\* TaskStart taking any task that is not finished, one another worker runs
\* included.
TaskStart_AnyUnfinished(w) ==
    /\ pc[w] = "idle"
    /\ \E i \in 1..Len(futures) :
          /\ futures[i].state # "FINISHED"
          /\ futures' = [futures EXCEPT ![i].state = "RUNNING"]
          /\ task' = [task EXCEPT ![w] = i]
          /\ frame' = [frame EXCEPT ![w] = Call(PullUrl(i))]
          /\ pc' = [pc EXCEPT ![w] = "fetch"]
    /\ UNCHANGED <<page, prs, requested, returned, yielded, detailed_prs, grouped, report,
                   exit_status, env>>

\* An idle worker takes the oldest queued task and runs fetch_pr_details up
\* to its call of fetch; a pr without a url ends the task there.
TaskStart(w) ==
    /\ pc[w] = "idle"
    /\ \E i \in 1..Len(futures) :
          /\ futures[i].state = "PENDING"
          /\ \A j \in 1..(i - 1) : futures[j].state # "PENDING"
          /\ LET pr_url == PrUrl(prs[i])
             IN  IF pr_url.raised
                 THEN /\ futures' = Finish(i, pr_url)
                      /\ UNCHANGED <<pc, frame, task>>
                 ELSE IF ~Truthy(pr_url.value)
                 THEN /\ futures' = Finish(i, Value(None))
                      /\ UNCHANGED <<pc, frame, task>>
                 ELSE /\ futures' = [futures EXCEPT ![i].state = "RUNNING"]
                      /\ task' = [task EXCEPT ![w] = i]
                      /\ frame' = [frame EXCEPT ![w] = Call(pr_url.value)]
                      /\ pc' = [pc EXCEPT ![w] = "fetch"]
    /\ UNCHANGED <<page, prs, requested, returned, yielded, detailed_prs, grouped, report,
                   exit_status, env>>

\* A worker runs its call of fetch, which touches nothing but the call's own
\* locals, to its end.
TaskFetch(w) ==
    /\ pc[w] = "fetch"
    /\ \E id \in 1..MaxItems :
          /\ PullUrl(id) = frame[w].url
          /\ \E f \in PullResults[id] : frame' = [frame EXCEPT ![w] = f]
    /\ pc' = [pc EXCEPT ![w] = "fetched"]
    /\ UNCHANGED <<page, prs, requested, returned, futures, task, yielded, detailed_prs,
                   grouped, report, exit_status, env>>

\* fetch_pr_details takes what fetch returned; its result or its exception
\* is set on the future and the worker is idle again.
TaskFinish(w) ==
    /\ pc[w] = "fetched"
    /\ futures' = Finish(task[w], Details(frame[w]))
    /\ task' = [task EXCEPT ![w] = 0]
    /\ frame' = [frame EXCEPT ![w] = NoFrame]
    /\ pc' = [pc EXCEPT ![w] = "idle"]
    /\ UNCHANGED <<page, prs, requested, returned, yielded, detailed_prs, grouped, report,
                   exit_status, env>>

\* Collected without the test of data.
Collected_Unconditionally(acc, data) == Append(acc, data)

\* if data: detailed_prs.append(data)
Collected(acc, data) == IF Truthy(data) THEN Append(acc, data) ELSE acc

\* Collect leaving the loop with the first result.
Collect_FirstResult ==
    /\ pc[Main] = "collect"
    /\ \E i \in 1..Len(futures) :
          /\ futures[i].state = "FINISHED"
          /\ i \notin yielded
          /\ yielded' = yielded \cup {i}
          /\ ~futures[i].outcome.raised
          /\ detailed_prs' = Collected(detailed_prs, futures[i].outcome.value)
          /\ pc' = [pc EXCEPT ![Main] = "report"]
    /\ UNCHANGED <<frame, page, prs, requested, returned, futures, task, grouped, report,
                   exit_status, env>>

\* One pass of for f in as_completed(futures): f.result() returns the task's
\* result or raises its exception in main; the exception leaves the with
\* block, whose exit waits for the pool.  After the last future the with
\* block is left normally.
Collect ==
    /\ pc[Main] = "collect"
    /\ \E i \in 1..Len(futures) :
          /\ futures[i].state = "FINISHED"
          /\ i \notin yielded
          /\ yielded' = yielded \cup {i}
          /\ IF futures[i].outcome.raised
             THEN /\ pc' = [pc EXCEPT ![Main] = "shutdown"]
                  /\ UNCHANGED detailed_prs
             ELSE /\ detailed_prs' = Collected(detailed_prs, futures[i].outcome.value)
                  /\ pc' = [pc EXCEPT ![Main] =
                              IF yielded' = 1..Len(futures) THEN "report" ELSE "collect"]
    /\ UNCHANGED <<frame, page, prs, requested, returned, futures, task, grouped, report,
                   exit_status, env>>

\* executor.__exit__ with an exception in flight: shutdown(wait=True) returns
\* once the workers have run every task, then main dies of the exception.
Shutdown ==
    /\ pc[Main] = "shutdown"
    /\ AllFinished(futures)
    /\ exit_status' = 1
    /\ pc' = [pc EXCEPT ![Main] = "exited"]
    /\ UNCHANGED <<frame, page, prs, requested, returned, futures, task, yielded, detailed_prs,
                   grouped, report, env>>

-----------------------------------------------------------------------------
(* main: the report *)

\* grouped[d["repo_name"]].append(d) for d in detailed_prs: a dict keeps its
\* keys in insertion order, so grouped is a sequence of (key, list) entries.
RECURSIVE GroupBy(_, _)
GroupBy(records, acc) ==
    IF records = <<>> THEN acc
    ELSE LET d == Head(records)
             key == d.d.repo_name
             at == {k \in 1..Len(acc) : acc[k].key = key}
         IN  GroupBy(Tail(records),
                     IF at = {}
                     THEN Append(acc, [key |-> key, list |-> <<d>>])
                     ELSE LET k == CHOOSE x \in at : TRUE
                          IN  [acc EXCEPT ![k].list = Append(@, d)])

Digits == <<"0", "1", "2", "3", "4", "5", "6", "7", "8", "9">>
IsDigit(c) == \E n \in 1..10 : Digits[n] = c
DigitValue(c) == (CHOOSE n \in 1..10 : Digits[n] = c) - 1

\* ord(c) for the characters of a timestamp
Ord(c) ==
    IF IsDigit(c) THEN 48 + DigitValue(c)
    ELSE CASE c = "-" -> 45 [] c = ":" -> 58 [] c = "T" -> 84 [] c = "Z" -> 90

\* a < b for two str: the first differing character decides, a proper prefix
\* is smaller
RECURSIVE StrLess(_, _)
StrLess(a, b) ==
    IF b = <<>> THEN FALSE
    ELSE IF a = <<>> THEN TRUE
    ELSE IF Head(a) = Head(b) THEN StrLess(Tail(a), Tail(b))
    ELSE Ord(Head(a)) < Ord(Head(b))

\* key=lambda x: x["created_at"]
SortKey(x) == x.d.created_at.s

\* x put into the sorted list l behind every element that is not greater
RECURSIVE Insert(_, _)
Insert(l, x) ==
    IF l = <<>> THEN <<x>>
    ELSE IF StrLess(SortKey(x), SortKey(Head(l))) THEN <<x>> \o l
    ELSE <<Head(l)>> \o Insert(Tail(l), x)

\* sorted(pr_list, key=...): ascending and stable
RECURSIVE SortedFrom(_, _)
SortedFrom(l, acc) == IF l = <<>> THEN acc ELSE SortedFrom(Tail(l), Insert(acc, Head(l)))

\* Sorted leaving the list in the order of collection.
Sorted_AsCollected(l) == l

Sorted(l) == SortedFrom(l, <<>>)

\* int() of a run of digits
RECURSIVE Number(_, _)
Number(chars, acc) ==
    IF chars = <<>> THEN acc ELSE Number(Tail(chars), 10 * acc + DigitValue(Head(chars)))

\* datetime.strptime(s, "%Y-%m-%dT%H:%M:%SZ"): the fields of the datetime, or
\* ok = FALSE where strptime raises ValueError
Strptime(s) ==
    LET shaped == /\ Len(s) = 20
                  /\ \A k \in {5, 8} : s[k] = "-"
                  /\ s[11] = "T"
                  /\ \A k \in {14, 17} : s[k] = ":"
                  /\ s[20] = "Z"
                  /\ \A k \in (1..19) \ {5, 8, 11, 14, 17} : IsDigit(s[k])
        field(a, b) == Number(SubSeq(s, a, b), 0)
    IN  IF shaped /\ field(6, 7) \in 1..12 /\ field(9, 10) \in 1..31
           /\ field(12, 13) < 24 /\ field(15, 16) < 60 /\ field(18, 19) < 62
        THEN [ok |-> TRUE, year |-> field(1, 4), month |-> field(6, 7), day |-> field(9, 10)]
        ELSE [ok |-> FALSE, year |-> 0, month |-> 0, day |-> 0]

\* n in decimal, zero-padded to width characters
RECURSIVE Padded(_, _)
Padded(n, width) ==
    IF width = 0 THEN <<>> ELSE Padded(n \div 10, width - 1) \o <<Digits[(n % 10) + 1]>>

\* dt.strftime("%Y-%m-%d")
Strftime(dt) == Padded(dt.year, 4) \o <<"-">> \o Padded(dt.month, 2) \o <<"-">> \o Padded(dt.day, 2)

NotMerged == <<"Not merged yet">>

\* Entry printing the merge date alone: nothing for a pr not merged.
Entry_WithoutMarker(i, pr) ==
    LET created == Strptime(pr.d.created_at.s)
    IN  [ok |-> created.ok,
         i |-> i,
         title |-> pr.d.title,
         raised |-> IF created.ok THEN Strftime(created) ELSE <<>>,
         merged |-> IF Truthy(pr.d.merged_at) /\ Strptime(pr.d.merged_at.s).ok
                    THEN Strftime(Strptime(pr.d.merged_at.s)) ELSE <<>>,
         pr_link |-> pr.d.pr_link]

\* The text printed for one pr of a group; ok = FALSE where strptime raises.
Entry(i, pr) ==
    LET created == Strptime(pr.d.created_at.s)
        merged == IF Truthy(pr.d.merged_at) THEN Strptime(pr.d.merged_at.s) ELSE created
    IN  [ok |-> created.ok /\ merged.ok,
         i |-> i,
         title |-> pr.d.title,
         raised |-> IF created.ok THEN Strftime(created) ELSE <<>>,
         merged |-> IF ~Truthy(pr.d.merged_at) THEN NotMerged
                    ELSE IF merged.ok THEN Strftime(merged) ELSE <<>>,
         pr_link |-> pr.d.pr_link]

\* What is printed for one entry of grouped.
Section(g) ==
    LET sorted == Sorted(g.list)
    IN  [kind |-> "repository",
         repo |-> g.key,
         repo_link |-> g.list[1].d.repo_link,
         total |-> Len(g.list),
         entries |-> [i \in 1..Len(sorted) |-> Entry(i, sorted[i])]]

SectionOk(sec) == \A i \in 1..Len(sec.entries) : sec.entries[i].ok

\* main from the grouping on: the header and one section per repository, then
\* a normal return.  A timestamp strptime rejects ends main with status 1
\* after the sections before it.
Report ==
    /\ pc[Main] = "report"
    /\ \E g \in {GroupBy(detailed_prs, <<>>)} :
       \E sections \in {[k \in 1..Len(g) |-> Section(g[k])]} :
          LET bad == {k \in 1..Len(sections) : ~SectionOk(sections[k])}
              upto == IF bad = {} THEN Len(sections)
                      ELSE (CHOOSE k \in bad : \A j \in bad : k <= j) - 1
          IN  /\ grouped' = g
              /\ report' = report \o <<[kind |-> "header"]>> \o SubSeq(sections, 1, upto)
              /\ exit_status' = IF bad = {} THEN 0 ELSE 1
    /\ pc' = [pc EXCEPT ![Main] = "exited"]
    /\ UNCHANGED <<frame, page, prs, requested, returned, futures, task, yielded, detailed_prs, env>>

\* The whole program against an API whose search holds at most MaxItems
\* items, the first of them with or without its pull_request reference.
Init ==
    /\ InitProgram
    /\ env \in [page_sizes : {0..MaxItems}, noref : {{}, {1}}]

Next ==
    \/ Start
    \/ FetchAttempt(Main)
    \/ SearchPage
    \/ Searched
    \/ Submit
    \/ \E w \in Workers : TaskStart(w)
    \/ \E w \in Workers : TaskFetch(w)
    \/ \E w \in Workers : TaskFinish(w)
    \/ Collect
    \/ Shutdown
    \/ Report

Spec == Init /\ [][Next]_vars

\* The steps of the main thread and those of a pool thread.
MainStep ==
    Start \/ FetchAttempt(Main) \/ SearchPage \/ Searched \/ Submit \/ Collect \/ Shutdown
        \/ Report

WorkerStep(w) == TaskStart(w) \/ TaskFetch(w) \/ TaskFinish(w)

\* Every thread that can run does: the scheduler starves none, and each
\* requests.get ends, in a response or in an exception (timeout=15).
Fairness == WF_vars(MainStep) /\ \A w \in Workers : WF_vars(WorkerStep(w))

FairSpec == Spec /\ Fairness

\* Pagination alone: the API's pages are empty, short or full.
InitSearch ==
    /\ InitProgram
    /\ env = [page_sizes |-> {0, 37, PageSize}, noref |-> {}]

NextSearch == Start \/ FetchAttempt(Main) \/ SearchPage

SpecSearch == InitSearch /\ [][NextSearch]_vars

\* main up to the executor: the search and the test of its result.
NextPages == Start \/ FetchAttempt(Main) \/ SearchPage \/ Searched

SpecPages == InitSearch /\ [][NextPages]_vars

-----------------------------------------------------------------------------
(* Properties of fetch *)

RateLimited(o) == ~o.exception /\ o.status_code \in {403, 429}
ServerError(o) == ~o.exception /\ o.status_code >= 500
RetryEligible(o) == RateLimited(o) \/ ServerError(o)
Parsed(o) == ~o.exception /\ o.status_code = 200 /\ ~o.json.raised
Permanent(o) == ~o.exception /\ o.status_code # 200 /\ ~RetryEligible(o)

Calls == {frame[t] : t \in Threads}

\* C3: a call of fetch never ends in an exception that reaches its caller,
\* whatever its attempts come to.
C3_NoExceptionLeavesFetch == \A f \in Calls : f.state # "raised"

\* C4: when attempts 1..k-1 are retry-eligible (403, 429, >= 500) and attempt k
\* is a 200 with a JSON body, fetch has returned that body after k attempts;
\* and a call all of whose attempts are retry-eligible returns, with None,
\* only after its third attempt.
C4_RetryThenSuccess ==
    \A f \in Calls :
        /\ \A k \in 1..Len(f.log) :
              (Parsed(f.log[k]) /\ \A j \in 1..(k - 1) : RetryEligible(f.log[j]))
                  => /\ f.state = "returned"
                     /\ f.ret = f.log[k].json.value
                     /\ Len(f.log) = k
                     /\ k <= retries
        /\ (f.state # "none" /\ \A j \in 1..Len(f.log) : RetryEligible(f.log[j]))
              => IF Len(f.log) < retries THEN f.state = "running"
                 ELSE f.state = "returned" /\ f.ret = None /\ Len(f.log) = retries

\* A call that returned the body of its third attempt after a rate limit and
\* a server error.
C4_Witness ==
    \E f \in Calls :
        /\ f.state = "returned" /\ Len(f.log) = 3
        /\ RateLimited(f.log[1]) /\ ServerError(f.log[2]) /\ Parsed(f.log[3])
        /\ f.ret = f.log[3].json.value /\ HasKey(f.ret, "items")

\* C5: a call of fetch issues at most 3 requests, rate limits, server errors
\* and network exceptions counting against one ceiling, and returns None
\* once its third attempt has failed in one of these ways.
C5_AtMostThreeRequests ==
    \A f \in Calls :
        /\ f.gets <= retries
        /\ f.gets = Len(f.log)
        /\ (f.gets = retries /\ (f.r.exception \/ RetryEligible(f.r)))
              => f.state = "returned" /\ f.ret = None

\* A call that gave up after a network exception, a rate limit and a server
\* error.
C5_Witness ==
    \E f \in Calls :
        /\ f.gets = 3 /\ f.state = "returned" /\ f.ret = None
        /\ f.log[1].exception /\ RateLimited(f.log[2]) /\ ServerError(f.log[3])

\* C6: a response with a status other than 200, 403, 429 and >= 500 is the
\* last of its call: fetch returns None on it at once, with no sleep in that
\* attempt and no further request.
C6_PermanentErrorNoRetry ==
    \A f \in Calls :
        \A k \in 1..Len(f.log) :
            Permanent(f.log[k])
                => /\ k = Len(f.log) /\ f.gets = k
                   /\ f.state = "returned" /\ f.ret = None
                   /\ \A n \in 1..Len(f.slept) : f.slept[n].attempt # k - 1

\* A call that returned None on a 404, its only attempt, without sleeping.
C6_Witness ==
    \E f \in Calls :
        /\ Len(f.log) = 1 /\ f.log[1].status_code = 404
        /\ f.state = "returned" /\ f.ret = None /\ f.slept = <<>> /\ f.gets = 1

-----------------------------------------------------------------------------
(* Properties of search_prs *)

\* The items a page's fetch brought: none when it returned None or a payload
\* without items.
Failed(data) == ~Truthy(data) \/ ~HasKey(data, "items")
ItemsOf(data) == IF Failed(data) THEN <<>> ELSE data.d.items.l

RECURSIVE Concatenated(_)
Concatenated(pages) ==
    IF pages = <<>> THEN <<>> ELSE ItemsOf(Head(pages)) \o Concatenated(Tail(pages))

\* C7: search_prs calls fetch for pages 1, 2, 3, ... in order, each after the
\* page before has returned; a page of 100 items is followed by the next
\* page, a page of fewer by none; and prs is the items of the pages in page
\* order.
C7_PagesInOrder ==
    /\ requested = [k \in 1..Len(requested) |-> k]
    /\ pc[Main] = "fetch" => Len(returned) = Len(requested) - 1
    /\ pc[Main] = "searched" => Len(returned) = Len(requested)
    /\ \A k \in 1..Len(returned) :
          IF Len(ItemsOf(returned[k])) < PageSize
          THEN Len(requested) = k
          ELSE Len(requested) > k
    /\ prs = Concatenated(returned)

\* Pages of 100, 100 and 37 items: 3 requests, 237 items.
C7_Witness ==
    /\ pc[Main] = "searched"
    /\ requested = <<1, 2, 3>>
    /\ Len(returned) = 3
    /\ Len(ItemsOf(returned[1])) = 100 /\ Len(ItemsOf(returned[2])) = 100
    /\ Len(ItemsOf(returned[3])) = 37
    /\ Len(prs) = 237

\* C8: when fetch returns None or a payload without items for page k,
\* search_prs requests no further page and returns, normally, the items of
\* pages 1..k-1.
C8_FailedPageStops ==
    \A k \in 1..Len(returned) :
        Failed(returned[k])
            => /\ Len(requested) = k /\ Len(returned) = k
               /\ pc[Main] \notin {"fetch", "fetched"}
               /\ exit_status \in {-1, 0}
               /\ prs = Concatenated(SubSeq(returned, 1, k - 1))

\* The fetch of page 3 gave up after two full pages: 200 items are returned.
C8_Witness ==
    /\ pc[Main] = "searched"
    /\ Len(returned) = 3 /\ returned[3] = None
    /\ requested = <<1, 2, 3>>
    /\ Len(prs) = 200

-----------------------------------------------------------------------------
(* Properties of fetch_pr_details and of the pool *)

\* A detail payload that lacks something fetch_pr_details reads.
LacksField(details) ==
    /\ details.type = "dict"
    /\ \/ \E k \in {"base", "title", "created_at", "merged_at", "html_url"} :
             ~HasKey(details, k)
       \/ ~HasKey(details.d.base, "repo")
       \/ \E k \in {"full_name", "html_url"} : ~HasKey(details.d.base.d.repo, k)

\* C1: when the detail payload lacks base, base.repo or another field it
\* reads, fetch_pr_details returns None: the task ends with the result None,
\* not with a record and not with an exception.
C1_AbsenceOnMissingField ==
    [][\A w \in Workers :
          (/\ pc[w] = "fetched" /\ pc'[w] = "idle"
           /\ frame[w].state = "returned" /\ LacksField(frame[w].ret))
              => futures'[task[w]] = Future("FINISHED", Value(None))]_vars

\* C2: no failure of one item reaches main's loop over the futures as an
\* exception: whatever fetch returned for the items (no call of fetch having
\* raised), no f.result() raises and main ends with status 0 after the
\* report.
C2_PerItemFailuresContained ==
    (/\ \A t \in Threads : frame[t].state # "raised"
     /\ \A i \in 1..Len(futures) : futures[i].outcome.exc # "json.JSONDecodeError")
        => /\ \A i \in yielded : ~futures[i].outcome.raised
           /\ pc[Main] # "shutdown"
           /\ (futures # <<>> /\ pc[Main] = "exited") => exit_status = 0

HasRecord(i) ==
    /\ futures[i].state = "FINISHED"
    /\ ~futures[i].outcome.raised
    /\ futures[i].outcome.value # None

Occurrences(v) == Cardinality({k \in 1..Len(detailed_prs) : detailed_prs[k] = v})

CoordinatorDone ==
    \/ pc[Main] = "report"
    \/ pc[Main] = "exited" /\ exit_status = 0 /\ futures # <<>>

\* C9: detailed_prs holds, at every moment, exactly one record for each
\* future handed to the loop whose task returned a record, and nothing else;
\* once the loop is over that is every task that returned a record, one task
\* per search item, whatever the order the tasks completed in.  A step that
\* appends is a step of main alone and appends one record.
C9_OneRecordPerEnrichedItem ==
    /\ [](/\ Len(detailed_prs) = Cardinality({i \in yielded : HasRecord(i)})
          /\ \A i \in yielded :
                Occurrences(futures[i].outcome.value) = IF HasRecord(i) THEN 1 ELSE 0
          /\ CoordinatorDone
                => /\ Len(futures) = Len(prs)
                   /\ yielded = 1..Len(futures)
                   /\ \A i \in yielded : futures[i].state = "FINISHED")
    /\ [][detailed_prs' # detailed_prs
             => /\ pc[Main] = "collect"
                /\ Len(detailed_prs') = Len(detailed_prs) + 1
                /\ SubSeq(detailed_prs', 1, Len(detailed_prs)) = detailed_prs
                /\ \A w \in Workers : pc'[w] = pc[w] /\ frame'[w] = frame[w]
                /\ futures' = futures]_vars

\* Three tasks done, the record of the third collected first, the second
\* task without a record.
C9_Witness ==
    /\ pc[Main] = "report"
    /\ Len(futures) = 3
    /\ HasRecord(1) /\ ~HasRecord(2) /\ HasRecord(3)
    /\ detailed_prs = <<futures[3].outcome.value, futures[1].outcome.value>>

-----------------------------------------------------------------------------
(* Properties of the report *)

Sections == {k \in 1..Len(report) : report[k].kind = "repository"}

\* The day a printed date names, as a number that grows with time.
DateNumber(date) ==
    Number(SubSeq(date, 1, 4), 0) * 10000 + Number(SubSeq(date, 6, 7), 0) * 100
        + Number(SubSeq(date, 9, 10), 0)

\* C10: in every repository section of the report the pull requests are
\* numbered 1, 2, ... and listed by non-decreasing creation date, whatever
\* order their tasks completed in.
C10_SectionsAscending ==
    \A k \in Sections :
        LET e == report[k].entries
        IN  /\ Len(e) = report[k].total
            /\ Len(e) = Cardinality({n \in 1..Len(detailed_prs) :
                                        detailed_prs[n].d.repo_name = report[k].repo})
            /\ \A a, b \in 1..Len(e) :
                  a < b => e[a].i = a /\ DateNumber(e[a].raised) <= DateNumber(e[b].raised)

\* Records created on 2024-01-03, 2024-01-01 and 2024-01-02 in one repository,
\* collected in that order, are listed 01, 02, 03.
C10_Witness ==
    /\ pc[Main] = "exited"
    /\ Len(detailed_prs) = 3
    /\ detailed_prs[1].d.created_at.s = Jan03
    /\ detailed_prs[2].d.created_at.s = Jan01
    /\ detailed_prs[3].d.created_at.s = Jan02
    /\ \E k \in Sections :
          /\ Len(report[k].entries) = 3
          /\ report[k].entries[1].raised = SubSeq(Jan01, 1, 10)
          /\ report[k].entries[2].raised = SubSeq(Jan02, 1, 10)
          /\ report[k].entries[3].raised = SubSeq(Jan03, 1, 10)

\* The same records in every order.
Orders(records) ==
    LET n == Len(records)
        perms == {p \in [1..n -> 1..n] : \A a, b \in 1..n : p[a] = p[b] => a = b}
    IN  {[k \in 1..n |-> records[p[k]]] : p \in perms}

\* What lines 134-147 make of a list of records: the groups in the order of
\* the mapping, each with its list as sorted for printing.
Aggregate(records) ==
    LET g == GroupBy(records, <<>>)
    IN  [k \in 1..Len(g) |-> [key |-> g[k].key, list |-> Sorted(g[k].list)]]

\* The mapping without the order of its keys.
Grouping(records) == LET a == Aggregate(records) IN {a[k] : k \in 1..Len(a)}

RECURSIVE Flattened(_)
Flattened(groups) ==
    IF groups = <<>> THEN <<>> ELSE Head(groups).list \o Flattened(Tail(groups))

\* C11: the records collected, presented in any order, are grouped into the
\* same repositories with the same order of records inside each repository,
\* records of one repository with equal creation timestamps included; and
\* aggregating the aggregator's own output changes nothing.
C11_OrderIndependentAggregation ==
    /\ \A q \in Orders(detailed_prs) : Grouping(q) = Grouping(detailed_prs)
    /\ Aggregate(Flattened(Aggregate(detailed_prs))) = Aggregate(detailed_prs)

-----------------------------------------------------------------------------
(* Properties of main *)

\* search_prs has returned its list to main.
SearchReturned ==
    /\ requested # <<>>
    /\ Len(returned) = Len(requested)
    /\ pc[Main] \notin {"fetch", "fetched"}

Notice == [kind |-> "notice"]

\* C12: when search_prs returned no item, main prints the notice and returns
\* with status 0 and nothing else happens: no task is submitted to a pool, no
\* worker calls fetch_pr_details or fetch, nothing is collected or grouped.
C12_NoItemsNoEnrichment ==
    (SearchReturned /\ prs = <<>>)
        => /\ pc[Main] \in {"searched", "exited"}
           /\ futures = <<>> /\ yielded = {} /\ detailed_prs = <<>> /\ grouped = <<>>
           /\ \A w \in Workers : pc[w] = "idle" /\ frame[w] = NoFrame /\ task[w] = 0
           /\ pc[Main] = "searched" => report = <<>> /\ exit_status = -1
           /\ pc[Main] = "exited" => report = <<Notice>> /\ exit_status = 0

\* The search answered 200 with an empty items list and main has returned.
C12_Witness ==
    /\ pc[Main] = "exited" /\ exit_status = 0
    /\ Len(returned) = 1 /\ ~Failed(returned[1]) /\ ItemsOf(returned[1]) = <<>>
    /\ prs = <<>> /\ report = <<Notice>>

NonEmpty(v) == v.type = "str" /\ Len(v.s) > 0 /\ \E k \in 1..Len(v.s) : v.s[k] # ""

\* The link of the pull request of search item i, as its detail gives it.
LinkOf(i) == Str(<<"https://github.com/pull/", ToString(i)>>)

\* The entries printed, over all sections of the report.
Printed == UNION {{report[k].entries[n] : n \in 1..Len(report[k].entries)} : k \in Sections}

RecordsOf(e) ==
    {detailed_prs[n] : n \in {m \in 1..Len(detailed_prs) : detailed_prs[m].d.pr_link = e.pr_link}}

\* C14: an entry printed for a record whose merged_at is None shows the
\* marker "Not merged yet" as its merge date; an entry printed for a record
\* with a merge timestamp shows that timestamp's date, ten characters
\* YYYY-MM-DD, never the marker; no entry shows an empty merge date.
C14_NotMergedMarker ==
    \A e \in Printed :
        /\ e.merged # <<>>
        /\ RecordsOf(e) # {}
        /\ \A rec \in RecordsOf(e) :
              IF rec.d.merged_at = None
              THEN e.merged = NotMerged
              ELSE /\ e.merged # NotMerged
                   /\ e.merged = SubSeq(rec.d.merged_at.s, 1, 10)

\* A report with an entry of a pull request not merged and an entry of one
\* merged on 2024-02-10.
C14_Witness ==
    /\ pc[Main] = "exited" /\ exit_status = 0
    /\ \E a, b \in Printed :
          /\ a.merged = NotMerged
          /\ \E rec \in RecordsOf(a) : rec.d.merged_at = None
          /\ b.merged = SubSeq(Feb10, 1, 10)
          /\ \E rec \in RecordsOf(b) : rec.d.merged_at = Str(Feb10)

\* The tasks a worker is executing, and the workers executing one.
Running == {i \in 1..Len(futures) : futures[i].state = "RUNNING"}
Busy == {w \in Workers : pc[w] # "idle"}

\* The executor exists: main is between its creation and the end of the with
\* block.
InPool == pc[Main] \in {"submit", "collect", "shutdown"}

\* C15: main submits one task per item of prs, the i-th for prs[i], and has
\* submitted them all when it starts collecting; at most 2 tasks are
\* executing at any moment, each by one worker of its own, so that at most 2
\* calls of fetch for a detail are open, and main has none open meanwhile;
\* a task is taken once: its future goes from PENDING to RUNNING to
\* FINISHED (or from PENDING to FINISHED) and never back.
C15_OneTaskPerItemTwoAtOnce ==
    /\ [](/\ Len(futures) <= Len(prs)
          /\ pc[Main] \in {"collect", "shutdown", "report"} => Len(futures) = Len(prs)
          /\ Cardinality(Running) <= 2
          /\ Cardinality(Busy) = Cardinality(Running)
          /\ \A w \in Workers :
                IF pc[w] = "idle" THEN task[w] = 0 /\ frame[w] = NoFrame
                ELSE /\ task[w] \in Running
                     /\ \A v \in Workers \ {w} : task[v] # task[w]
                     /\ pc[w] = "fetch" => frame[w].url = PrUrl(prs[task[w]]).value
          /\ Cardinality({t \in Threads : frame[t].state = "running"}) <= 2
          /\ (InPool \/ Busy # {}) => frame[Main] = NoFrame)
    /\ [][\A i \in 1..Len(futures) :
             futures'[i] # futures[i]
                 => \/ futures[i].state = "PENDING" /\ futures'[i].state \in {"RUNNING", "FINISHED"}
                    \/ futures[i].state = "RUNNING" /\ futures'[i].state = "FINISHED"]_vars

\* Three items: both workers are inside fetch for the first two, the third
\* task waits in the queue.
C15_Witness ==
    /\ Len(prs) = 3 /\ Len(futures) = 3
    /\ futures[1].state = "RUNNING" /\ futures[2].state = "RUNNING"
    /\ futures[3].state = "PENDING"
    /\ \A w \in Workers : pc[w] = "fetch" /\ frame[w].state = "running"

\* main is past the with block of the executor.
PastPool ==
    \/ pc[Main] = "report"
    \/ pc[Main] = "exited" /\ futures # <<>>
    \/ grouped # <<>>
    \/ \E k \in 1..Len(report) : report[k].kind \in {"header", "repository"}

\* C16: main leaves the with block of the executor, for the grouping and
\* the report or with an exception, only when every task submitted has
\* finished and no worker is busy; on the way to the report every future
\* has been handed to the loop; no future is ever cancelled.
C16_ReportAfterAllTasks ==
    /\ \A i \in 1..Len(futures) : futures[i].state \in {"PENDING", "RUNNING", "FINISHED"}
    /\ PastPool
          => /\ Len(futures) = Len(prs)
             /\ AllFinished(futures)
             /\ Busy = {}
             /\ (\A i \in yielded : ~futures[i].outcome.raised) => yielded = 1..Len(futures)
    /\ (pc[Main] = "exited" /\ futures # <<>> /\ yielded # 1..Len(futures))
          => exit_status = 1 /\ report = <<>>

\* The report printed after three tasks, all finished.
C16_Witness ==
    /\ pc[Main] = "exited" /\ exit_status = 0
    /\ Len(futures) = 3 /\ AllFinished(futures) /\ yielded = 1..3
    /\ grouped # <<>>
    /\ report[1].kind = "header"

-----------------------------------------------------------------------------
(* Termination *)

\* Every task submitted finishes.
TasksTerminate ==
    \A i \in 1..MaxItems :
        (Len(futures) >= i /\ futures[i].state # "FINISHED")
            ~> (Len(futures) >= i /\ futures[i].state = "FINISHED")

\* search_prs returns, or an exception ends it.
SearchTerminates == (pc[Main] = "fetch") ~> (pc[Main] \notin {"fetch", "fetched"})

\* main leaves the with block of the executor.
PoolTerminates == (pc[Main] = "submit") ~> (pc[Main] \in {"report", "exited"})

Reported == \E k \in 1..Len(report) : report[k].kind = "header"

\* C17: with every thread scheduled fairly, whatever the API answers, each
\* task finishes, search_prs ends, and once main has items to submit the
\* pool phase ends and the report is printed.
C17_EventuallyReported ==
    /\ TasksTerminate
    /\ SearchTerminates
    /\ PoolTerminates
    /\ (pc[Main] = "submit") ~> (pc[Main] = "exited" /\ Reported)

-----------------------------------------------------------------------------
(* Frame of fetch_pr_details *)

\* A search item that carries no reference to its detail.
NoReference(pr) ==
    \/ ~HasKey(pr, "pull_request")
    \/ pr.d.pull_request.type = "dict" /\ ~HasKey(pr.d.pull_request, "url")

\* C18: the task of an item without pull_request.url never calls fetch: no
\* worker is ever running it or has a call of fetch open for a url of that
\* item, its future goes from PENDING straight to FINISHED, and its result
\* is None.
C18_NoReferenceNoRequest ==
    \A i \in 1..Len(futures) :
        NoReference(prs[i])
            => /\ futures[i].state \in {"PENDING", "FINISHED"}
               /\ futures[i].state = "FINISHED" => futures[i].outcome = Value(None)
               /\ \A w \in Workers : task[w] # i /\ frame[w].url # PullUrl(i)
               /\ \A n \in 1..Len(detailed_prs) : detailed_prs[n].d.pr_link # LinkOf(i)

\* The first item has no reference: its task is over with None and no
\* worker was engaged, while the task of the second is executing.
C18_Witness ==
    /\ Len(futures) >= 2
    /\ NoReference(prs[1])
    /\ futures[1] = Future("FINISHED", Value(None))
    /\ futures[2].state = "RUNNING"
    /\ \E w \in Workers : pc[w] = "idle" /\ frame[w] = NoFrame

-----------------------------------------------------------------------------
(* The backoff of fetch *)

\* The sleeps of the call whose frame is f during its k-th attempt
\* (attempt = k - 1), in order.
SleepsOf(f, k) == SelectSeq(f.slept, LAMBDA e : e.attempt = k - 1)

\* C19: a 403 or 429 on the k-th attempt of a call (attempt index k - 1,
\* whatever the attempts before it came to) is followed by one sleep of
\* 2^(k-1) seconds: 1, 2 or 4 s and no more; the sleep is done on the third
\* attempt too, after which the call returns None.
C19_BackoffByAttemptIndex ==
    \A f \in Calls :
        \A k \in 1..Len(f.log) :
            RateLimited(f.log[k])
                => /\ k \in 1..3
                   /\ SleepsOf(f, k) = <<[attempt |-> k - 1, ms |-> <<1000, 2000, 4000>>[k]]>>
                   /\ k = 3 => f.state = "returned" /\ f.ret = None /\ Len(f.log) = 3
                   /\ k < 3 => Len(f.log) > k \/ (f.state = "running" /\ f.attempt = k)

\* A server error, a network exception, then a 429 on the third attempt:
\* sleeps of 1, 1 and 4 seconds and None returned.
C19_Witness ==
    \E f \in Calls :
        /\ Len(f.log) = 3
        /\ ServerError(f.log[1]) /\ f.log[2].exception /\ RateLimited(f.log[3])
        /\ f.slept = <<[attempt |-> 0, ms |-> 1000], [attempt |-> 1, ms |-> 1000],
                       [attempt |-> 2, ms |-> 4000]>>
        /\ f.state = "returned" /\ f.ret = None

-----------------------------------------------------------------------------
(* Failed pages and what main makes of them *)

\* What a user can tell of a run: its output and its exit status; and what
\* main has in hand for the executor.
Observable == [report |-> report, exit_status |-> exit_status, prs |-> prs,
               futures |-> futures]

\* The end of a run whose search matched nothing.
NoMatches == [report |-> <<Notice>>, exit_status |-> 0, prs |-> <<>>, futures |-> <<>>]

====
